---- MODULE Spec2Model ----
(***************************************************************************)
(* aoc06: a guard walks a 2D grid, turning right in front of obstacles.    *)
(* Part 1 counts the distinct cells visited until the guard leaves the     *)
(* grid; part 2 counts the single-obstacle placements that make the walk   *)
(* cycle.  The model follows src/aoc06/src/main.rs: main() is a process    *)
(* whose position is pc, MapState::has_loop is unrolled one loop iteration *)
(* per step.  Rust's 0-based indices are kept for rows and columns; the    *)
(* TLA+ sequences that hold the grid are 1-based, hence the "+ 1".         *)
(***************************************************************************)
EXTENDS Integers, Sequences, FiniteSets, TLC

(***************************************************************************)
(* Bounds of the input space.                                              *)
(***************************************************************************)
MaxRows == 3
MaxCols == 3
MaxCells == 9
MaxBlocked == 4
RawRows == 2
RawCols == 2

(***************************************************************************)
(* Characters.  BadChar stands for any character outside . # ^ > v <       *)
(***************************************************************************)
Markers == {"^", ">", "v", "<"}
TileChars == {".", "#"}
BadChar == "x"
AllChars == TileChars \cup Markers \cup {BadChar}

Orientations == {"Up", "Right", "Down", "Left"}

\* impl TryFrom<char> for MapTile: Err(value) is modelled as "Err"
MapTile_try_from(value) ==
  CASE value = "." -> "Empty"
    [] value = "#" -> "Blocked"
    [] OTHER -> "Err"

\* impl TryFrom<char> for Orientation
Orientation_try_from(value) ==
  CASE value = "^" -> "Up"
    [] value = ">" -> "Right"
    [] value = "v" -> "Down"
    [] value = "<" -> "Left"
    [] OTHER -> "Err"

\* Orientation::right90
Orientation_right90(o) ==
  CASE o = "Up" -> "Right"
    [] o = "Right" -> "Down"
    [] o = "Down" -> "Left"
    [] o = "Left" -> "Up"

(***************************************************************************)
(* Guard                                                                   *)
(***************************************************************************)
\* variant: every forward delta has the wrong sign
Guard_next_reversed(g) ==
  CASE g.orientation = "Up" -> <<g.row + 1, g.col>>
    [] g.orientation = "Right" -> <<g.row, g.col - 1>>
    [] g.orientation = "Down" -> <<g.row - 1, g.col>>
    [] g.orientation = "Left" -> <<g.row, g.col + 1>>

Guard_next(g) ==
  CASE g.orientation = "Up" -> <<g.row - 1, g.col>>
    [] g.orientation = "Right" -> <<g.row, g.col + 1>>
    [] g.orientation = "Down" -> <<g.row + 1, g.col>>
    [] g.orientation = "Left" -> <<g.row, g.col - 1>>

Guard_advance(g) ==
  [g EXCEPT !.row = Guard_next(g)[1], !.col = Guard_next(g)[2]]

Guard_right90(g) ==
  [g EXCEPT !.orientation = Orientation_right90(g.orientation)]

(***************************************************************************)
(* trait Map, impl Map for Vec<Vec<MapTile>>                               *)
(***************************************************************************)
Map_rows(map) == Len(map)

\* the length of the first row stands for every row's
Map_cols(map) == IF map = <<>> THEN 0 ELSE Len(map[1])

\* variant: the lower bounds are not tested
Map_on_map_no_lower_bound(map, row, col) ==
  row < Map_rows(map) /\ col < Map_cols(map)

\* variant: a row or column index equal to the size counts as on the map
Map_on_map_inclusive(map, row, col) ==
  row >= 0 /\ col >= 0 /\ row <= Map_rows(map) /\ col <= Map_cols(map)

Map_on_map(map, row, col) ==
  row >= 0 /\ col >= 0 /\ row < Map_rows(map) /\ col < Map_cols(map)

\* self[row as usize][col as usize] panics when an index is out of the Vec's range
Map_get(map, row, col) ==
  IF Map_on_map(map, row, col)
  THEN IF row >= 0 /\ row < Len(map) /\ col >= 0 /\ col < Len(map[row + 1])
       THEN [kind |-> "Some", tile |-> map[row + 1][col + 1]]
       ELSE [kind |-> "Panic", tile |-> "None"]
  ELSE [kind |-> "None", tile |-> "None"]

(***************************************************************************)
(* MapState                                                                *)
(***************************************************************************)
InitialGuard == [row |-> 0, col |-> 0, orientation |-> "Up"]

MarkerCells(ls) ==
  UNION {{<<r, c>> : c \in {k \in 1..Len(ls[r]) : ls[r][k] \in Markers}} :
           r \in 1..Len(ls)}

\* the marker met last in row-major order is the one that stays in guard
LastMarker(ls) ==
  CHOOSE p \in MarkerCells(ls) :
    \A q \in MarkerCells(ls) :
      q[1] < p[1] \/ (q[1] = p[1] /\ q[2] <= p[2])

\* some character makes an expect() in parse panic
ParsePanics(ls) ==
  \E r \in 1..Len(ls) : \E c \in 1..Len(ls[r]) :
    /\ ls[r][c] \notin Markers
    /\ MapTile_try_from(ls[r][c]) = "Err"

ParsedGuard(ls) ==
  IF MarkerCells(ls) = {}
  THEN InitialGuard
  ELSE LET p == LastMarker(ls)
       IN [row |-> p[1] - 1,
           col |-> p[2] - 1,
           orientation |-> Orientation_try_from(ls[p[1]][p[2]])]

MapState_parse(ls) ==
  [map |-> [r \in 1..Len(ls) |->
              [c \in 1..Len(ls[r]) |->
                 IF ls[r][c] \in Markers
                 THEN "Empty"
                 ELSE MapTile_try_from(ls[r][c])]],
   guard |-> ParsedGuard(ls)]

MapState_on_map(ms) == Map_on_map(ms.map, ms.guard.row, ms.guard.col)

NextTile(ms) == Map_get(ms.map, Guard_next(ms.guard)[1], Guard_next(ms.guard)[2])

MapState_blocked(ms) ==
  NextTile(ms).kind = "Some" /\ NextTile(ms).tile = "Blocked"

\* the lookup inside blocked() indexes outside a row
BlockedPanics(ms) == NextTile(ms).kind = "Panic"

\* variant: a blocked guard turns and steps in the same tick
MapState_advance_turn_and_move(ms) ==
  IF MapState_blocked(ms)
  THEN [ms EXCEPT !.guard = Guard_advance(Guard_right90(ms.guard))]
  ELSE [ms EXCEPT !.guard = Guard_advance(ms.guard)]

\* variant: obstacles are ignored, the guard always steps
MapState_advance_never_turns(ms) ==
  [ms EXCEPT !.guard = Guard_advance(ms.guard)]

MapState_advance(ms) ==
  IF MapState_blocked(ms)
  THEN [ms EXCEPT !.guard = Guard_right90(ms.guard)]
  ELSE [ms EXCEPT !.guard = Guard_advance(ms.guard)]

\* variant: a blocked guard turns and steps in the same tick
LoopBody_turn_and_move(ms) ==
  IF MapState_blocked(ms)
  THEN [ms EXCEPT !.guard = Guard_advance(Guard_right90(ms.guard))]
  ELSE [ms EXCEPT !.guard = Guard_advance(ms.guard)]

\* lines 185-189, the tick inside has_loop's loop
LoopBody(ms) ==
  IF MapState_blocked(ms)
  THEN [ms EXCEPT !.guard = Guard_right90(ms.guard)]
  ELSE [ms EXCEPT !.guard = Guard_advance(ms.guard)]

\* variant: poses are compared by position only
HashSet_insert_by_position(set, value) ==
  [set |-> set \cup {value},
   inserted |-> \A g \in set : g.row # value.row \/ g.col # value.col]

\* variant: a repeated pose is not noticed
HashSet_insert_always_new(set, value) ==
  [set |-> set \cup {value}, inserted |-> TRUE]

\* HashSet::insert: the new set and whether the value was newly inserted
HashSet_insert(set, value) ==
  [set |-> set \cup {value}, inserted |-> value \notin set]

\* has_loop as a function of its receiver: the verdict and the poses recorded
RECURSIVE HasLoopRun(_, _)
HasLoopRun(ms, seen) ==
  IF ~MapState_on_map(ms)
  THEN [verdict |-> "Exits", visited |-> seen]
  ELSE IF ~HashSet_insert(seen, ms.guard).inserted
       THEN [verdict |-> "Loop", visited |-> seen]
       ELSE IF BlockedPanics(ms)
            THEN [verdict |-> "Panic", visited |-> seen \cup {ms.guard}]
            ELSE HasLoopRun(LoopBody(ms), HashSet_insert(seen, ms.guard).set)

MapState_has_loop(ms) == HasLoopRun(ms, {})

(***************************************************************************)
(* Inputs                                                                  *)
(***************************************************************************)
MarkerOf(o) ==
  CASE o = "Up" -> "^"
    [] o = "Right" -> ">"
    [] o = "Down" -> "v"
    [] o = "Left" -> "<"

\* R lines of C characters: "#" on the cells of B, the marker of g (if any)
Render(R, C, B, g) ==
  [r \in 1..R |->
     [c \in 1..C |->
        IF <<r, c>> \in B THEN "#"
        ELSE IF g # <<>> /\ g[1] = <<r, c>> THEN MarkerOf(g[2])
        ELSE "."]]

\* equal-length lines over . # ^ > v < with at most one guard marker: at most
\* MaxRows x MaxCols, MaxCells cells in all, MaxBlocked of them "#"
IsGridInput(ls) ==
  \E R \in 0..MaxRows : \E C \in 0..MaxCols :
    /\ R * C <= MaxCells
    /\ \E B \in SUBSET ((1..R) \X (1..C)) :
      /\ Cardinality(B) <= MaxBlocked
      /\ \E g \in {<<>>} \cup ((((1..R) \X (1..C)) \ B) \X Orientations) :
           ls = Render(R, C, B, g)

\* the 6x6 grids of the spec's scenario: the guard in row 0 facing Down, the
\* one "#" two rows below it and one column to its left
IsScenarioInput(ls) ==
  \E c \in 1..5 : ls = Render(6, 6, {<<3, c>>}, <<<<1, c + 1>>, "Down">>)

RECURSIVE SeqsUpTo(_, _)
SeqsUpTo(S, n) ==
  IF n = 0 THEN {<<>>}
  ELSE SeqsUpTo(S, n - 1) \cup
       {Append(s, x) : s \in {t \in SeqsUpTo(S, n - 1) : Len(t) = n - 1}, x \in S}

\* any lines at all, unequal lengths and foreign characters included
RawInputs == SeqsUpTo(SeqsUpTo(AllChars, RawCols), RawRows)

(***************************************************************************)
(* State of main()                                                         *)
(***************************************************************************)
VARIABLES
  lines,      \* input_lines()
  pc,         \* where main() is
  fresh_map,  \* line 219
  map_state,  \* the clone a walk works on (lines 224, 243)
  visited1,   \* part 1's set of (row, col), line 225
  row, col,   \* part 2's loop indices, lines 235, 237
  visited,    \* has_loop's set of poses, line 180
  loops,      \* line 234
  verdict,    \* what the last has_loop call returned, "None" before any
  trace,      \* history: the pose at the start of each tick of the current has_loop call
  trials      \* history: the cells has_loop was called for, in order

vars == <<lines, pc, fresh_map, map_state, visited1, row, col, visited,
          loops, verdict, trace, trials>>

EmptyState == [map |-> <<>>, guard |-> InitialGuard]

InitRest ==
  /\ pc = "parse"
  /\ fresh_map = EmptyState
  /\ map_state = EmptyState
  /\ visited1 = {}
  /\ row = 0
  /\ col = 0
  /\ visited = {}
  /\ loops = 0
  /\ verdict = "None"
  /\ trace = <<>>
  /\ trials = <<>>

Init == IsGridInput(lines) /\ InitRest

\* the grids of Init and the 6x6 scenario grids
InitScenario == (IsGridInput(lines) \/ IsScenarioInput(lines)) /\ InitRest

\* every input: the grids of Init, and any lines at all up to RawRows x RawCols
InitRaw == (IsGridInput(lines) \/ lines \in RawInputs) /\ InitRest

\* line 219
Parse ==
  /\ pc = "parse"
  /\ IF ParsePanics(lines)
     THEN pc' = "panic" /\ UNCHANGED fresh_map
     ELSE pc' = "part1_begin" /\ fresh_map' = MapState_parse(lines)
  /\ UNCHANGED <<lines, map_state, visited1, row, col, visited, loops,
                 verdict, trace, trials>>

\* lines 224-225
Part1Begin ==
  /\ pc = "part1_begin"
  /\ map_state' = fresh_map
  /\ visited1' = {}
  /\ pc' = "part1"
  /\ UNCHANGED <<lines, fresh_map, row, col, visited, loops, verdict, trace,
                 trials>>

\* lines 226-229, one iteration
Part1Tick ==
  /\ pc = "part1"
  /\ MapState_on_map(map_state)
  /\ visited1' = visited1 \cup {<<map_state.guard.row, map_state.guard.col>>}
  /\ IF BlockedPanics(map_state)
     THEN pc' = "panic" /\ UNCHANGED map_state
     ELSE pc' = "part1" /\ map_state' = MapState_advance(map_state)
  /\ UNCHANGED <<lines, fresh_map, row, col, visited, loops, verdict, trace,
                 trials>>

\* line 226 false, lines 230-235
Part1End ==
  /\ pc = "part1"
  /\ ~MapState_on_map(map_state)
  /\ loops' = 0
  /\ row' = 0
  /\ col' = 0
  /\ pc' = "part2"
  /\ UNCHANGED <<lines, fresh_map, map_state, visited1, visited, verdict,
                 trace, trials>>

InRows == row < Len(fresh_map.map)
InCols == InRows /\ col < Len(fresh_map.map[row + 1])

\* variant: the guard's own cell is not skipped
Skipped_blocked_only ==
  fresh_map.map[row + 1][col + 1] = "Blocked"

\* lines 238-239
Skipped ==
  \/ fresh_map.map[row + 1][col + 1] = "Blocked"
  \/ (fresh_map.guard.row = row /\ fresh_map.guard.col = col)

\* line 235: the rows are exhausted; line 250
Part2Done ==
  /\ pc = "part2"
  /\ ~InRows
  /\ pc' = "done"
  /\ UNCHANGED <<lines, fresh_map, map_state, visited1, row, col, visited,
                 loops, verdict, trace, trials>>

\* line 237: the row is exhausted
Part2NextRow ==
  /\ pc = "part2"
  /\ InRows /\ ~InCols
  /\ row' = row + 1
  /\ col' = 0
  /\ UNCHANGED <<lines, pc, fresh_map, map_state, visited1, visited, loops,
                 verdict, trace, trials>>

\* lines 238-242
Part2Skip ==
  /\ pc = "part2"
  /\ InCols
  /\ Skipped
  /\ col' = col + 1
  /\ UNCHANGED <<lines, pc, fresh_map, map_state, visited1, row, visited,
                 loops, verdict, trace, trials>>

\* variant: the trial works on the state the previous walk left behind
Part2Trial_clone_map_state ==
  /\ pc = "part2"
  /\ InCols
  /\ ~Skipped
  /\ map_state' = [map_state EXCEPT !.map[row + 1][col + 1] = "Blocked"]
  /\ visited' = {}
  /\ trace' = <<>>
  /\ trials' = Append(trials, <<row, col>>)
  /\ pc' = "has_loop"
  /\ UNCHANGED <<lines, fresh_map, visited1, row, col, loops, verdict>>

\* variant: the obstacle of a trial is not taken back before the next one
Part2Trial_keep_obstacles ==
  /\ pc = "part2"
  /\ InCols
  /\ ~Skipped
  /\ map_state' = [map |-> [map_state.map EXCEPT ![row + 1][col + 1] = "Blocked"],
                   guard |-> fresh_map.guard]
  /\ visited' = {}
  /\ trace' = <<>>
  /\ trials' = Append(trials, <<row, col>>)
  /\ pc' = "has_loop"
  /\ UNCHANGED <<lines, fresh_map, visited1, row, col, loops, verdict>>

\* lines 243-245 and 180: the trial's state, has_loop entered
Part2Trial ==
  /\ pc = "part2"
  /\ InCols
  /\ ~Skipped
  /\ map_state' = [fresh_map EXCEPT !.map[row + 1][col + 1] = "Blocked"]
  /\ visited' = {}
  /\ trace' = <<>>
  /\ trials' = Append(trials, <<row, col>>)
  /\ pc' = "has_loop"
  /\ UNCHANGED <<lines, fresh_map, visited1, row, col, loops, verdict>>

\* lines 181-189, one iteration that does not return
HasLoopTick ==
  /\ pc = "has_loop"
  /\ MapState_on_map(map_state)
  /\ HashSet_insert(visited, map_state.guard).inserted
  /\ visited' = HashSet_insert(visited, map_state.guard).set
  /\ trace' = Append(trace, map_state.guard)
  /\ IF BlockedPanics(map_state)
     THEN pc' = "panic" /\ UNCHANGED map_state
     ELSE pc' = "has_loop" /\ map_state' = LoopBody(map_state)
  /\ UNCHANGED <<lines, fresh_map, visited1, row, col, loops, verdict, trials>>

\* lines 182-183 return true; lines 245-247
HasLoopTrue ==
  /\ pc = "has_loop"
  /\ MapState_on_map(map_state)
  /\ ~HashSet_insert(visited, map_state.guard).inserted
  /\ verdict' = "Loop"
  /\ loops' = loops + 1
  /\ col' = col + 1
  /\ pc' = "part2"
  /\ UNCHANGED <<lines, fresh_map, map_state, visited1, row, visited, trace,
                 trials>>

\* lines 181, 191 return false; line 245
HasLoopFalse ==
  /\ pc = "has_loop"
  /\ ~MapState_on_map(map_state)
  /\ verdict' = "Exits"
  /\ col' = col + 1
  /\ pc' = "part2"
  /\ UNCHANGED <<lines, fresh_map, map_state, visited1, row, visited, loops,
                 trace, trials>>

Next ==
  \/ Parse
  \/ Part1Begin
  \/ Part1Tick
  \/ Part1End
  \/ Part2Done
  \/ Part2NextRow
  \/ Part2Skip
  \/ Part2Trial
  \/ HasLoopTick
  \/ HasLoopTrue
  \/ HasLoopFalse

Spec == Init /\ [][Next]_vars

\* main() runs on: a step that can be taken is taken
FairSpec == Spec /\ WF_vars(Next)

SpecRaw == InitRaw /\ [][Next]_vars

SpecScenario == InitScenario /\ [][Next]_vars

TypeOK ==
  /\ pc \in {"parse", "part1_begin", "part1", "part2", "has_loop", "done", "panic"}
  /\ loops \in Nat
  /\ verdict \in {"None", "Loop", "Exits"}

(***************************************************************************)
(* Vocabulary of the properties, stated on the grid itself                 *)
(***************************************************************************)
Parsed == pc \in {"part1_begin", "part1", "part2", "has_loop", "done"}

Rectangular(m) == \A r \in 1..Len(m) : Len(m[r]) = Len(m[1])

Cells(m) == UNION {{<<r, c>> : c \in 0..Len(m[r + 1]) - 1} : r \in 0..Len(m) - 1}

TileAt(m, p) == m[p[1] + 1][p[2] + 1]

ForwardDelta(o) ==
  CASE o = "Up" -> <<-1, 0>>
    [] o = "Right" -> <<0, 1>>
    [] o = "Down" -> <<1, 0>>
    [] o = "Left" -> <<0, -1>>

Clockwise(o) ==
  CASE o = "Up" -> "Right"
    [] o = "Right" -> "Down"
    [] o = "Down" -> "Left"
    [] o = "Left" -> "Up"

Pos(g) == <<g.row, g.col>>

Ahead(g) == <<g.row + ForwardDelta(g.orientation)[1], g.col + ForwardDelta(g.orientation)[2]>>

OnGrid(m, p) ==
  /\ p[1] >= 0 /\ p[1] < Len(m)
  /\ p[2] >= 0 /\ p[2] < Len(m[p[1] + 1])

AheadBlocked(ms) == OnGrid(ms.map, Ahead(ms.guard)) /\ TileAt(ms.map, Ahead(ms.guard)) = "Blocked"

Range(s) == {s[i] : i \in 1..Len(s)}

NoRepeat(s) == \A i, j \in 1..Len(s) : s[i] = s[j] => i = j

StartCell == Pos(fresh_map.guard)

EmptyCells(m) == {p \in Cells(m) : TileAt(m, p) = "Empty"}

WithObstacle(ms, p) == [ms EXCEPT !.map[p[1] + 1][p[2] + 1] = "Blocked"]

TickRule ==
  ((pc = "part1" /\ pc' = "part1") \/ (pc = "has_loop" /\ pc' = "has_loop"))
    => /\ map_state'.map = map_state.map
       /\ IF AheadBlocked(map_state)
          THEN /\ Pos(map_state'.guard) = Pos(map_state.guard)
               /\ map_state'.guard.orientation = Clockwise(map_state.guard.orientation)
          ELSE /\ Pos(map_state'.guard) = Ahead(map_state.guard)
               /\ map_state'.guard.orientation = map_state.guard.orientation

(***************************************************************************)
(* C1: every tick of part 1 and of has_loop does exactly one thing: with a *)
(* Blocked tile directly ahead the guard turns clockwise and stays where   *)
(* it is, otherwise it moves one cell forward and keeps its orientation;   *)
(* the grid is not touched.                                                *)
(***************************************************************************)
C1_OneActionPerTick == [][TickRule]_vars

\* the guard has just turned and is blocked again: the next tick turns once more
C1_Witness ==
  /\ pc = "has_loop"
  /\ Len(trace) >= 1
  /\ Pos(trace[Len(trace)]) = Pos(map_state.guard)
  /\ trace[Len(trace)].orientation # map_state.guard.orientation
  /\ AheadBlocked(map_state)

(***************************************************************************)
(* C2: has_loop records the pose before each tick; it returns Loop exactly *)
(* when the guard stands on the grid in a pose of an earlier tick of the   *)
(* run, at the first such moment, and Exits exactly when the guard is off  *)
(* the grid and no pose has repeated.                                      *)
(***************************************************************************)
C2_LoopVerdict ==
  /\ pc = "has_loop" => visited = Range(trace) /\ NoRepeat(trace)
  /\ (pc \in {"part2", "done"} /\ trials # <<>>) =>
       /\ NoRepeat(trace)
       /\ visited = Range(trace)
       /\ verdict = "Loop" <=>
            (OnGrid(map_state.map, Pos(map_state.guard)) /\ map_state.guard \in Range(trace))
       /\ verdict = "Exits" <=> ~OnGrid(map_state.map, Pos(map_state.guard))

\* a run has returned Loop after recording four poses
C2_Witness ==
  /\ pc = "part2"
  /\ verdict = "Loop"
  /\ Cardinality(Range(trace)) >= 4

(***************************************************************************)
(* C3: when main ends, loops is the number of cells c of the base grid     *)
(* that are Empty, are not the start cell, and for which has_loop on the   *)
(* base grid with c Blocked, from the start pose, returns Loop.            *)
(***************************************************************************)
LoopPlacements ==
  {p \in EmptyCells(fresh_map.map) \ {StartCell} :
     MapState_has_loop(WithObstacle(fresh_map, p)).verdict = "Loop"}

C3_ScenarioCount == pc = "done" => loops = Cardinality(LoopPlacements)

C3_Witness == pc = "done" /\ loops >= 1 /\ Len(trials) > loops

(***************************************************************************)
(* C4 as claimed: once part 1's loop runs, the guard is eventually off the *)
(* grid.                                                                   *)
(***************************************************************************)
C4_AlwaysTerminates ==
  (pc = "part1") ~> (pc = "part1" /\ ~OnGrid(map_state.map, Pos(map_state.guard)))

BaseExits == MapState_has_loop(fresh_map).verdict = "Exits"

(***************************************************************************)
(* C4, amended: part 1's loop reaches a state with the guard off the grid  *)
(* if the walk from the start pose never repeats a pose; if the walk does  *)
(* repeat a pose, the guard stays on the grid for ever.                    *)
(***************************************************************************)
C4_TerminatesUnlessCycle ==
  /\ (pc = "part1" /\ BaseExits) ~>
       (pc = "part1" /\ ~OnGrid(map_state.map, Pos(map_state.guard)))
  /\ []((pc = "part1" /\ ~BaseExits) => OnGrid(map_state.map, Pos(map_state.guard)))

\* part 1 has ended after a walk with at least one turn
C4_Witness ==
  /\ pc = "part1"
  /\ ~OnGrid(map_state.map, Pos(map_state.guard))
  /\ map_state.guard.orientation # fresh_map.guard.orientation
  /\ Cardinality(visited1) >= 3

(***************************************************************************)
(* C5: a has_loop run applies at most rows*cols*4 ticks, and it returns.   *)
(***************************************************************************)
C5_TickBound ==
  /\ [](pc = "has_loop" =>
          Len(trace) <= Len(map_state.map) * Len(map_state.map[1]) * 4)
  /\ (pc = "has_loop") ~> (pc = "part2")

\* a run that returned after at least as many ticks as the grid has cells
C5_Witness ==
  /\ pc = "part2"
  /\ trials # <<>>
  /\ Len(trace) >= Len(map_state.map) * Len(map_state.map[1])
  /\ Len(map_state.map) >= 2

TrialsOnCandidates ==
  \A i \in 1..Len(trials) :
    /\ trials[i] # StartCell
    /\ TileAt(fresh_map.map, trials[i]) = "Empty"

(***************************************************************************)
(* C6 as claimed: no trial is on the start cell or on a Blocked cell, and  *)
(* when the guard starts on the grid the trials number the Empty cells     *)
(* minus 1.                                                                *)
(***************************************************************************)
C6_CandidateCount ==
  /\ Parsed => TrialsOnCandidates
  /\ (pc = "done" /\ OnGrid(fresh_map.map, StartCell)) =>
       Len(trials) = Cardinality(EmptyCells(fresh_map.map)) - 1

(***************************************************************************)
(* C6, amended: no trial is on the start cell or on a Blocked cell; when   *)
(* the guard starts on an Empty cell of the grid the trials number the     *)
(* Empty cells minus 1, and when it starts on a Blocked cell (no marker in *)
(* the input, "#" at row 0, column 0) they number the Empty cells.         *)
(***************************************************************************)
C6_CandidateCountEmptyStart ==
  /\ Parsed => TrialsOnCandidates
  /\ (pc = "done" /\ OnGrid(fresh_map.map, StartCell)) =>
       Len(trials) = Cardinality(EmptyCells(fresh_map.map))
                       - (IF TileAt(fresh_map.map, StartCell) = "Empty" THEN 1 ELSE 0)

\* the search is over on a grid with obstacles, the guard's own cell skipped
C6_Witness ==
  /\ pc = "done"
  /\ StartCell \in EmptyCells(fresh_map.map)
  /\ StartCell # <<0, 0>>
  /\ Len(trials) >= 2
  /\ Cardinality(EmptyCells(fresh_map.map)) < Cardinality(Cells(fresh_map.map))

(***************************************************************************)
(* C7: the base grid and start pose never change after parsing; a trial    *)
(* starts from the start pose with no pose recorded; and during a trial    *)
(* the grid is the base grid with exactly the trial's cell turned Blocked. *)
(***************************************************************************)
C7_TrialsIsolated ==
  /\ Parsed => fresh_map = MapState_parse(lines)
  /\ pc = "has_loop" =>
       /\ trials # <<>>
       /\ TileAt(fresh_map.map, trials[Len(trials)]) = "Empty"
       /\ map_state.map = WithObstacle(fresh_map, trials[Len(trials)]).map
       /\ \A p \in Cells(fresh_map.map) :
            TileAt(map_state.map, p) # TileAt(fresh_map.map, p) <=> p = trials[Len(trials)]
       /\ trace = <<>> => map_state.guard = fresh_map.guard /\ visited = {}

\* a later trial starts after an earlier one left its guard and poses behind
C7_Witness ==
  /\ pc = "has_loop"
  /\ Len(trials) >= 2
  /\ trace = <<>>
  /\ verdict = "Loop"

(***************************************************************************)
(* C8: when part 1 has ended, has_loop on the base grid from the start     *)
(* pose returns Exits, and the positions of the poses it recorded are      *)
(* exactly the positions part 1 recorded.                                  *)
(***************************************************************************)
C8_ModesAgree ==
  pc = "part2" =>
    /\ MapState_has_loop(fresh_map).verdict = "Exits"
    /\ {Pos(g) : g \in MapState_has_loop(fresh_map).visited} = visited1

\* the walk turned on at least one cell, so poses outnumber positions
C8_Witness ==
  /\ pc = "part2"
  /\ Cardinality(visited1) >= 3
  /\ Cardinality(MapState_has_loop(fresh_map).visited) > Cardinality(visited1)

WellFormed(ls) ==
  /\ \A r \in 1..Len(ls) : Len(ls[r]) = Len(ls[1])
  /\ \A r \in 1..Len(ls) : \A c \in 1..Len(ls[r]) : ls[r][c] \in TileChars \cup Markers

(***************************************************************************)
(* C9 as claimed: with rows of unequal length or a foreign character in    *)
(* the input, main never gets past parsing, so no walk runs on a           *)
(* non-rectangular grid.                                                   *)
(***************************************************************************)
C9_MalformedRejected ==
  /\ ~WellFormed(lines) => ~Parsed
  /\ pc \in {"part1", "has_loop"} => Rectangular(map_state.map)

LookupRule ==
  pc \in {"part1", "has_loop"} =>
    /\ \A r \in -2..Len(map_state.map) + 1 : \A c \in -2..MaxCols + 2 :
         Map_get(map_state.map, r, c) =
           IF OnGrid(map_state.map, <<r, c>>)
           THEN [kind |-> "Some", tile |-> TileAt(map_state.map, <<r, c>>)]
           ELSE [kind |-> "None", tile |-> "None"]
    /\ MapState_blocked(map_state) <=> AheadBlocked(map_state)
    /\ (/\ OnGrid(map_state.map, Pos(map_state.guard))
        /\ ~OnGrid(map_state.map, Ahead(map_state.guard))
        /\ pc' = pc)
       => /\ ~MapState_blocked(map_state)
          /\ Pos(map_state'.guard) = Ahead(map_state.guard)
          /\ ~OnGrid(map_state'.map, Pos(map_state'.guard))

(***************************************************************************)
(* C10: on the rectangular grid a walk runs on, the lookup of any signed   *)
(* (row, col), negative or beyond the last row or column included, is the  *)
(* stored tile when the position is on the grid and absent otherwise,      *)
(* never a fault; blocked() holds iff the cell ahead is on the grid and    *)
(* Blocked; and the tick of a guard facing the edge takes it off the grid. *)
(***************************************************************************)
C10_LookupTotal == [][LookupRule]_vars

\* a guard on the top row looking up: the cell ahead has row -1
C10_Witness ==
  /\ pc = "part1"
  /\ OnGrid(map_state.map, Pos(map_state.guard))
  /\ Ahead(map_state.guard)[1] = -1
  /\ visited1 # {}

\* the cells ahead of the start, up to the edge of the grid it faces
OnRay(g, p) ==
  CASE g.orientation = "Up" -> p[2] = g.col /\ p[1] < g.row
    [] g.orientation = "Right" -> p[1] = g.row /\ p[2] > g.col
    [] g.orientation = "Down" -> p[2] = g.col /\ p[1] > g.row
    [] g.orientation = "Left" -> p[1] = g.row /\ p[2] < g.col

StraightPathClear ==
  /\ OnGrid(fresh_map.map, StartCell)
  /\ \A p \in Cells(fresh_map.map) :
       OnRay(fresh_map.guard, p) => TileAt(fresh_map.map, p) = "Empty"

\* Manhattan distance from the start to the last cell of the ray
ExitDistance(g, m) ==
  CASE g.orientation = "Up" -> g.row
    [] g.orientation = "Right" -> Len(m[1]) - 1 - g.col
    [] g.orientation = "Down" -> Len(m) - 1 - g.row
    [] g.orientation = "Left" -> g.col

StraightWalkRule ==
  /\ (pc = "part1" /\ pc' = "part1" /\ StraightPathClear)
       => Pos(map_state.guard) \notin visited1
  /\ (pc = "part1" /\ pc' = "part2" /\ StraightPathClear)
       => Cardinality(visited1) = ExitDistance(fresh_map.guard, fresh_map.map) + 1

(***************************************************************************)
(* C11: when no Blocked cell lies between the on-grid start and the edge   *)
(* the guard faces, no tick of part 1 records a cell that is already       *)
(* recorded, and part 1 ends with as many cells as the Manhattan distance  *)
(* from the start to the last cell before the edge, plus one.              *)
(***************************************************************************)
C11_StraightWalk == [][StraightWalkRule]_vars

\* part 1 has ended after a straight walk of three cells past obstacles off its line
C11_Witness ==
  /\ pc = "part2"
  /\ StraightPathClear
  /\ Cardinality(visited1) >= 3
  /\ Cardinality(EmptyCells(fresh_map.map)) < Cardinality(Cells(fresh_map.map))

OnScenario == Len(lines) = 6 /\ IsScenarioInput(lines)

(***************************************************************************)
(* C12 as claimed: on the 6x6 scenario grid the guard turns exactly once   *)
(* before it leaves, so it leaves facing Left after an L-shaped walk that  *)
(* covers more than one column.                                            *)
(***************************************************************************)
C12_TurnsOnce ==
  (OnScenario /\ pc = "part2" /\ trials = <<>>) =>
    /\ map_state.guard.orientation = Clockwise("Down")
    /\ Cardinality({p[2] : p \in visited1}) > 1

ScenarioRule ==
  /\ (OnScenario /\ pc = "part1" /\ pc' = "part1") =>
       /\ map_state'.guard.orientation = "Down"
       /\ map_state'.guard.col = StartCell[2]
  /\ (OnScenario /\ pc = "part1" /\ pc' = "part2") =>
       visited1 = {<<r, StartCell[2]>> : r \in 0..5}

(***************************************************************************)
(* C12, amended: on the 6x6 scenario grid the Blocked cell is not in the   *)
(* guard's column, so no tick of part 1 turns the guard: it walks straight *)
(* down its column and part 1 ends with the 6 cells of that column.        *)
(***************************************************************************)
C12_NeverTurns == [][ScenarioRule]_vars

\* part 1 has ended on a scenario grid with six cells recorded
C12_Witness ==
  /\ OnScenario
  /\ pc = "part2"
  /\ trials = <<>>
  /\ Cardinality(visited1) = 6
  /\ ~OnGrid(map_state.map, Pos(map_state.guard))

OneByOne == Len(lines) = 1 /\ Len(lines[1]) = 1 /\ lines[1][1] \in Markers

(***************************************************************************)
(* C13: on a 1x1 grid that holds only the guard, whatever its orientation, *)
(* has_loop is never called, no trial is run, loops stays 0, and part 1    *)
(* ends with exactly one cell recorded.                                    *)
(***************************************************************************)
C13_SingleCell ==
  OneByOne =>
    /\ pc # "has_loop"
    /\ trials = <<>>
    /\ loops = 0
    /\ pc \in {"part2", "done"} => Cardinality(visited1) = 1

\* main has ended on a 1x1 grid
C13_Witness == OneByOne /\ pc = "done" /\ visited1 = {<<0, 0>>}

\* the grid has Len(lines) rows and as many columns as its first line has characters
OffGridStart ==
  /\ Parsed
  /\ \/ StartCell[1] \notin 0..(Len(lines) - 1)
     \/ lines = <<>>
     \/ StartCell[2] \notin 0..(Len(lines[1]) - 1)

(***************************************************************************)
(* C14: when the start pose is off the grid, part 1 records no position    *)
(* and applies no tick, and has_loop, from that pose, returns Exits with   *)
(* no tick applied and no pose recorded, in every call main makes and as a *)
(* function of the base state.                                             *)
(***************************************************************************)
C14_OffGridStart ==
  OffGridStart =>
    /\ visited1 = {}
    /\ pc \in {"part1", "part2", "has_loop", "done"} => map_state.guard = fresh_map.guard
    /\ trace = <<>>
    /\ visited = {}
    /\ loops = 0
    /\ (pc \in {"part2", "done"} /\ trials # <<>>) => verdict = "Exits"
    /\ MapState_has_loop(fresh_map) = [verdict |-> "Exits", visited |-> {}]

\* part 1 has ended and a has_loop call has returned for a guard that starts off the grid
C14_Witness ==
  OffGridStart /\ pc = "part2" /\ trials # <<>> /\ verdict = "Exits" /\ visited1 = {}

\* one tick of the movement rule, stated on positions and headings
RuleTick(ms) ==
  IF AheadBlocked(ms)
  THEN [ms EXCEPT !.guard.orientation = Clockwise(@)]
  ELSE [ms EXCEPT !.guard.row = Ahead(ms.guard)[1], !.guard.col = Ahead(ms.guard)[2]]

\* the poses of the walk from ms, a function of grid and pose alone: the
\* poses at the start of the first n ticks and the pose after them, cut
\* short at the first pose off the grid
RECURSIVE Walk(_, _)
Walk(ms, n) ==
  IF n = 0 \/ ~OnGrid(ms.map, Pos(ms.guard))
  THEN <<ms.guard>>
  ELSE <<ms.guard>> \o Walk(RuleTick(ms), n - 1)

\* the state the current or latest trial started from
TrialStart == WithObstacle(fresh_map, trials[Len(trials)])

\* a walk repeats itself at the latest after this many ticks, twice over
WalkHorizon(m) == 8 * Cardinality(Cells(m))

(***************************************************************************)
(* C15: every run is a function of its grid and start pose alone, whatever *)
(* ran before it. In part 1 the guard's pose and the recorded positions    *)
(* are those of some prefix of the walk from the base state; in a trial    *)
(* the recorded poses and the guard's pose are the walk from the trial's   *)
(* start state, tick for tick; and a returned verdict and pose set are     *)
(* those of has_loop evaluated on the trial's start state.                 *)
(***************************************************************************)
C15_Deterministic ==
  /\ pc = "part1" =>
       LET w == Walk(fresh_map, WalkHorizon(fresh_map.map))
       IN  \E n \in 1..Len(w) :
             /\ map_state.guard = w[n]
             /\ visited1 = {Pos(w[i]) : i \in 1..(n - 1)}
  /\ pc = "has_loop" =>
       LET w == Walk(TrialStart, Len(trace))
       IN  /\ Len(w) = Len(trace) + 1
           /\ SubSeq(w, 1, Len(trace)) = trace
           /\ w[Len(w)] = map_state.guard
  /\ (pc \in {"part2", "done"} /\ trials # <<>>) =>
       /\ verdict = MapState_has_loop(TrialStart).verdict
       /\ Range(trace) = MapState_has_loop(TrialStart).visited

\* a run of three ticks or more has exited after an earlier trial returned Loop
C15_Witness ==
  /\ pc = "part2"
  /\ Len(trials) >= 2
  /\ loops >= 1
  /\ verdict = "Exits"
  /\ Len(trace) >= 3

PoseRule(g) ==
  /\ Guard_next(g) = <<g.row + ForwardDelta(g.orientation)[1],
                       g.col + ForwardDelta(g.orientation)[2]>>
  /\ Guard_advance(g).orientation = g.orientation
  /\ Pos(Guard_advance(g)) = <<g.row + ForwardDelta(g.orientation)[1],
                               g.col + ForwardDelta(g.orientation)[2]>>
  /\ Pos(Guard_right90(g)) = Pos(g)
  /\ Guard_right90(g).orientation = Clockwise(g.orientation)
  /\ Guard_right90(Guard_right90(Guard_right90(Guard_right90(g)))) = g

(***************************************************************************)
(* C16: for the pose of the guard in any run, taken with each of the four  *)
(* orientations: next is the position one forward delta ahead (Up (-1,0),  *)
(* Right (0,+1), Down (+1,0), Left (0,-1)); advance moves the position     *)
(* there and keeps the orientation; right90 keeps the position and gives   *)
(* the next orientation of the cycle Up, Right, Down, Left, Up; and four   *)
(* right90 in a row give the pose back.                                    *)
(***************************************************************************)
C16_PoseTransforms ==
  pc \in {"part1", "has_loop"} =>
    \A o \in Orientations : PoseRule([map_state.guard EXCEPT !.orientation = o])

\* a guard that has both turned and moved, standing off the grid above or left of it
C16_Witness ==
  /\ pc = "has_loop"
  /\ map_state.guard.orientation # fresh_map.guard.orientation
  /\ Pos(map_state.guard) # StartCell
  /\ (map_state.guard.row < 0 \/ map_state.guard.col < 0)

\* the guard stands on the grid, on a cell it stood on at an earlier tick of
\* the run, in a pose it has not had before
RevisitsCell ==
  /\ pc = "has_loop"
  /\ OnGrid(map_state.map, Pos(map_state.guard))
  /\ map_state.guard \notin Range(trace)
  /\ \E i \in 1..Len(trace) : Pos(trace[i]) = Pos(map_state.guard)

RevisitRule ==
  /\ RevisitsCell =>
       /\ pc' = "has_loop"
       /\ trace' = Append(trace, map_state.guard)
       /\ verdict' = verdict
       /\ loops' = loops
  /\ (pc = "has_loop" /\ pc' = "part2" /\ verdict' = "Loop") =>
       map_state.guard \in Range(trace)

(***************************************************************************)
(* C17: when the guard stands on a cell it has stood on earlier in the run *)
(* but in a pose not yet recorded, has_loop does not return: it records    *)
(* the pose and ticks on. It returns Loop only in a pose recorded before.  *)
(***************************************************************************)
C17_PositionRepeat == [][RevisitRule]_vars

\* a run has exited after the guard walked back over a cell it had left,
\* with another orientation
C17_Witness ==
  /\ pc = "part2"
  /\ verdict = "Exits"
  /\ \E i, j \in 1..Len(trace) :
       /\ i + 1 < j
       /\ Pos(trace[i]) = Pos(trace[j])
       /\ trace[i].orientation # trace[j].orientation
       /\ Pos(trace[i + 1]) # Pos(trace[i])

\* the state after n ticks of the movement rule, or at the first pose off the grid
RECURSIVE WalkEnd(_, _)
WalkEnd(ms, n) ==
  IF n = 0 \/ ~OnGrid(ms.map, Pos(ms.guard))
  THEN ms
  ELSE WalkEnd(RuleTick(ms), n - 1)

\* the walk from ms under the movement rule reaches a pose off the grid; a
\* walk still on the grid after WalkHorizon ticks has repeated a pose and
\* stays on the grid forever
LeavesGrid(ms) ==
  LET end == WalkEnd(ms, WalkHorizon(ms.map))
  IN  ~OnGrid(end.map, Pos(end.guard))

\* p is off the grid m and next to one of its border cells
OneCellOutside(m, p) ==
  /\ ~OnGrid(m, p)
  /\ \E q \in Cells(m) :
       (q[1] - p[1]) * (q[1] - p[1]) + (q[2] - p[2]) * (q[2] - p[2]) = 1

(***************************************************************************)
(* C18: a has_loop call returns Loop exactly when the walk from its start  *)
(* state under the movement rule never leaves the grid, and Exits exactly  *)
(* when it does; after Exits the guard stands off the grid, one step from  *)
(* a border cell. The same two equivalences hold of has_loop evaluated on  *)
(* the parsed base state when the guard starts on the grid.                *)
(***************************************************************************)
C18_VerdictSoundComplete ==
  /\ (pc \in {"part2", "done"} /\ trials # <<>>) =>
       LET leaves == LeavesGrid(TrialStart)
       IN  /\ verdict = "Loop" <=> ~leaves
           /\ verdict = "Exits" <=> leaves
           /\ verdict = "Exits" => OneCellOutside(map_state.map, Pos(map_state.guard))
  /\ (pc = "part1_begin" /\ OnGrid(fresh_map.map, StartCell)) =>
       LET leaves == LeavesGrid(fresh_map)
           base == MapState_has_loop(fresh_map).verdict
       IN  /\ base = "Loop" <=> ~leaves
           /\ base = "Exits" <=> leaves

\* main has ended after one trial returned Loop and the last one returned Exits
C18_Witness ==
  /\ pc = "done"
  /\ loops >= 1
  /\ verdict = "Exits"
  /\ Len(trace) >= 2
  /\ OneCellOutside(map_state.map, Pos(map_state.guard))

StartEmpty == OnGrid(fresh_map.map, StartCell) /\ TileAt(fresh_map.map, StartCell) = "Empty"

NotOnBlocked(m, g) == OnGrid(m, Pos(g)) => TileAt(m, Pos(g)) # "Blocked"

(***************************************************************************)
(* C19: when the start cell is Empty, in every state of part 1 and of      *)
(* every trial the guard is off the grid or on a cell of the run's grid,   *)
(* the trial's obstacle included, that is not Blocked; so is every pose a  *)
(* trial has recorded.                                                     *)
(***************************************************************************)
C19_NeverOnBlocked ==
  (Parsed /\ StartEmpty) =>
    /\ NotOnBlocked(map_state.map, map_state.guard)
    /\ \A i \in 1..Len(trace) : NotOnBlocked(map_state.map, trace[i])

\* in a trial the guard stands right before the added obstacle, away from the start
C19_Witness ==
  /\ pc = "has_loop"
  /\ StartEmpty
  /\ Ahead(map_state.guard) = trials[Len(trials)]
  /\ Pos(map_state.guard) # StartCell

\* the latest trial's obstacle is on a cell the base walk never stood on
OffBaseWalk == trials # <<>> /\ trials[Len(trials)] \notin visited1

PlacementRule ==
  /\ (pc = "has_loop" /\ OffBaseWalk) =>
       LET w == Walk(fresh_map, Len(trace))
       IN  /\ Len(w) = Len(trace) + 1
           /\ SubSeq(w, 1, Len(trace)) = trace
           /\ w[Len(w)] = map_state.guard
  /\ (pc \in {"part2", "done"} /\ OffBaseWalk) =>
       /\ verdict = MapState_has_loop(fresh_map).verdict
       /\ Range(trace) = MapState_has_loop(fresh_map).visited
  /\ (pc \in {"part2", "done"} /\ trials # <<>> /\ verdict = "Loop") =>
       trials[Len(trials)] \in visited1 \ {StartCell}

(***************************************************************************)
(* C20 as claimed: a trial whose obstacle is on a cell the base walk never *)
(* stood on passes through the poses of the walk on the base grid and      *)
(* returns its verdict; a trial that returns Loop has its obstacle on a    *)
(* cell part 1 recorded; and loops is at most the number of cells part 1   *)
(* recorded minus 1.                                                       *)
(***************************************************************************)
C20_CountBelowVisited ==
  /\ PlacementRule
  /\ pc \in {"part2", "has_loop", "done"} => loops <= Cardinality(visited1) - 1

(***************************************************************************)
(* C20, amended: as above, with the bound on loops claimed only when the   *)
(* guard starts on the grid; when it starts off the grid both counts are   *)
(* 0.                                                                      *)
(***************************************************************************)
C20_CountBelowVisitedOnGrid ==
  /\ PlacementRule
  /\ pc \in {"part2", "has_loop", "done"} =>
       IF OnGrid(fresh_map.map, StartCell)
       THEN loops <= Cardinality(visited1) - 1
       ELSE loops = 0 /\ visited1 = {}

\* after a trial returned Loop, a trial off the base walk has returned Exits
C20_Witness ==
  /\ pc = "part2"
  /\ OffBaseWalk
  /\ loops >= 1
  /\ verdict = "Exits"
  /\ Len(trace) >= 3
====
